---- MODULE Spec2Model ----
(***************************************************************************)
(* Model of the file reference store and prompt assembler of               *)
(* src/src/prompt_builder.rs (PromptBuilder), together with the part of    *)
(* the filesystem its operations consult.                                  *)
(*                                                                         *)
(* A path is the sequence of its normal components below the root          *)
(* (std::path::Path compares and prefixes paths component-wise); a string  *)
(* built by push_str/format! is the sequence of the pieces pushed.         *)
(***************************************************************************)
EXTENDS Integers, Sequences, FiniteSets, TLC

\* ------------------------------------------------------------------ bounds
\* Cap on the order counter (usize in the code, unbounded in practice).
MaxOrder == 3

\* ------------------------------------------------------- the path universe
Root    == <<>>
Foo     == <<"foo">>
FooA    == <<"foo", "a">>
FooSub  == <<"foo", "sub">>
FooSubB == <<"foo", "sub", "b">>
Foobar  == <<"foobar">>

\* The order in which paths are enumerated when a listing is sorted by name.
PathOrder == <<Foo, FooA, FooSub, FooSubB, Foobar>>

Paths == {Root} \cup {PathOrder[i] : i \in 1..Len(PathOrder)}

\* The tree the disk starts with: /foo/a, /foo/sub/b and /foobar are regular
\* files.
BaseKind(p) == IF p \in {Root, Foo, FooSub} THEN "dir" ELSE "file"

\* Paths handed to add_file / remove_file, and to add_directory /
\* remove_directory.
FileArgs == {FooA, FooSub, FooSubB, Foobar}
DirArgs  == {Root, Foo, FooSub, Foobar}

\* Files that may be unlinked and created again, and directories whose read
\* permission may be taken away (recursively), while the store is in use.
Volatile   == {FooA}
Chmoddable == {FooSub}

\* The text of each regular file.
Content(p) == IF p = FooA THEN "A" ELSE IF p = FooSubB THEN "B" ELSE "X"

VARIABLES
    file_contexts,  \* PromptState.file_contexts: Seq of FileReference
    next_order,     \* PromptState.next_order
    kind,           \* disk: path -> "file" | "dir" | "missing"
    denied,         \* disk: paths whose read (read_dir / read_to_string) fails
    last,           \* the last call made and what it returned
    handed,         \* history: largest order value handed out since clear, -1 if none
    phase           \* history: "cleared" after clear(), "first" after the first
                    \* successful add_file that follows it, "no" otherwise

vars == <<file_contexts, next_order, kind, denied, last, handed, phase>>

\* ------------------------------------------------------------ path helpers
\* q is p or lies below p in the tree.
Below(q, p) == Len(p) <= Len(q) /\ \A k \in 1..Len(p) : q[k] = p[k]

\* The characters of a component.
SegChars(seg) ==
    CASE seg = "foo"    -> <<"f", "o", "o">>
      [] seg = "foobar" -> <<"f", "o", "o", "b", "a", "r">>
      [] seg = "sub"    -> <<"s", "u", "b">>
      [] OTHER          -> <<seg>>

RECURSIVE PathChars(_)
\* The characters of the path written as a string: /foo/sub.
PathChars(p) ==
    IF Len(p) = 0 THEN <<>>
    ELSE <<"/">> \o SegChars(p[1]) \o PathChars(Tail(p))

\* Prefix test on the raw strings instead of on the components.
starts_with_raw(path, base) ==
    LET b == IF Len(base) = 0 THEN <<"/">> ELSE PathChars(base)
        q == IF Len(path) = 0 THEN <<"/">> ELSE PathChars(path)
    IN  Len(b) <= Len(q) /\ SubSeq(q, 1, Len(b)) = b

\* Path::starts_with: component-wise prefix.
starts_with(path, base) ==
    /\ Len(base) <= Len(path)
    /\ SubSeq(path, 1, Len(base)) = base

RECURSIVE Join(_)
\* to_string_lossy of a relative path: components separated by "/".
Join(segs) ==
    IF Len(segs) = 0 THEN ""
    ELSE IF Len(segs) = 1 THEN segs[1]
    ELSE segs[1] \o "/" \o Join(Tail(segs))

\* Path::display of an absolute path.
PathString(p) == "/" \o Join(p)

\* path.file_name().map(..).unwrap_or_else(|| path.display().to_string())
file_display_name(path) ==
    IF Len(path) = 0 THEN PathString(path) ELSE path[Len(path)]

\* path.strip_prefix(dir).unwrap_or(&path).to_string_lossy().to_string()
strip_prefix_name(path, dir) ==
    IF starts_with(path, dir)
    THEN Join(SubSeq(path, Len(dir) + 1, Len(path)))
    ELSE PathString(path)

\* FileReference::new
FileReference(path, display_name, order) ==
    [path |-> path, display_name |-> display_name, order |-> order]

\* --------------------------------------------------------- disk predicates
exists(p)  == kind[p] # "missing"
is_file(p) == kind[p] = "file"
is_dir(p)  == kind[p] = "dir"

Reverse(s) == [i \in 1..Len(s) |-> s[Len(s) + 1 - i]]

\* fs::read_dir(dir): the entries of dir, in one of the orders the
\* filesystem may yield them.
read_dir(dir, rev) ==
    LET isChild(p) == /\ Len(p) = Len(dir) + 1
                      /\ SubSeq(p, 1, Len(dir)) = dir
                      /\ exists(p)
        listing == SelectSeq(PathOrder, isChild)
    IN  IF rev THEN Reverse(listing) ELSE listing

\* The membership test comparing the wrong field of the entry.
contains_display(files, path) ==
    \E i \in 1..Len(files) : files[i].display_name = PathString(path)

\* self.state.file_contexts.iter().any(|f| f.path == path)
contains(files, path) == \E i \in 1..Len(files) : files[i].path = path

\* ------------------------------------------------- add_directory_recursive
\* The push that forgets to count the entry.
push_file_uncounted(st, path, dir) ==
    [st EXCEPT !.files = Append(@, FileReference(path,
                              strip_prefix_name(path, dir),
                              next_order + st.count))]

\* The body of `if !already added`: push the entry with order
\* next_order + *count, then *count += 1.
push_file(st, path, dir) ==
    [st EXCEPT !.files = Append(@, FileReference(path,
                              strip_prefix_name(path, dir),
                              next_order + st.count)),
               !.count = @ + 1]

RECURSIVE add_directory_recursive(_, _, _), walk_entries(_, _, _, _, _)

\* st = [files, count, err]: the store's entries, *count, and the error the
\* walk returned ("" while it has not failed).
add_directory_recursive(dir, st, rev) ==
    IF dir \in denied
    THEN [st EXCEPT !.err = "Failed to read directory"]
    ELSE walk_entries(dir, read_dir(dir, rev), 1, st, rev)

walk_entries(dir, entries, i, st, rev) ==
    IF i > Len(entries) THEN st
    ELSE LET path == entries[i] IN
         IF is_file(path)
         THEN IF ~contains(st.files, path)
              THEN walk_entries(dir, entries, i + 1,
                                push_file(st, path, dir), rev)
              ELSE walk_entries(dir, entries, i + 1, st, rev)
         ELSE IF is_dir(path)
         THEN LET r == add_directory_recursive(path, st, rev) IN
              IF r.err # "" THEN r
              ELSE walk_entries(dir, entries, i + 1, r, rev)
         ELSE walk_entries(dir, entries, i + 1, st, rev)

\* --------------------------------------------------------------- queries
\* PromptBuilder::file_count
file_count == Len(file_contexts)

\* PromptBuilder::readable_files_count
readable_files_count ==
    Cardinality({i \in 1..Len(file_contexts) :
        exists(file_contexts[i].path) /\ is_file(file_contexts[i].path)})

\* The count that takes only the missing paths for unreadable.
unreadable_missing_only ==
    Cardinality({i \in 1..Len(file_contexts) :
        ~exists(file_contexts[i].path)})

\* PromptBuilder::unreadable_files_count
unreadable_files_count ==
    Cardinality({i \in 1..Len(file_contexts) :
        ~exists(file_contexts[i].path) \/ ~is_file(file_contexts[i].path)})

\* ------------------------------------------------------------ build_prompt
\* fs::read_to_string(path)
read_to_string(path) ==
    IF ~exists(path)
    THEN [ok |-> FALSE, text |-> "No such file or directory (os error 2)"]
    ELSE IF is_dir(path)
    THEN [ok |-> FALSE, text |-> "Is a directory (os error 21)"]
    ELSE IF path \in denied
    THEN [ok |-> FALSE, text |-> "Permission denied (os error 13)"]
    ELSE [ok |-> TRUE, text |-> Content(path)]

\* format!("=== File: {} ===\n", display_name)
Header(display_name) == "=== File: " \o display_name \o " ===\n"

\* format!("Error reading file: {}\n\n", e)
ErrorNote(e) == "Error reading file: " \o e \o "\n\n"

RECURSIVE build_prompt_loop(_, _)
\* The for loop of build_prompt from entry i on; prompt is the sequence of
\* the pieces pushed so far.
build_prompt_loop(i, prompt) ==
    IF i > Len(file_contexts) THEN [ok |-> TRUE, out |-> prompt]
    ELSE LET file_ref == file_contexts[i]
             withHeader == Append(prompt, Header(file_ref.display_name))
             r == read_to_string(file_ref.path)
         IN  IF r.ok
             THEN build_prompt_loop(i + 1, withHeader \o <<r.text, "\n\n">>)
             ELSE build_prompt_loop(i + 1, Append(withHeader, ErrorNote(r.text)))

\* The assembly that propagates the first read error instead of noting it.
build_prompt_propagating ==
    IF \E i \in 1..Len(file_contexts) : ~read_to_string(file_contexts[i].path).ok
    THEN [ok |-> FALSE, out |-> <<>>]
    ELSE build_prompt_loop(1, <<>>)

\* PromptBuilder::build_prompt
build_prompt == build_prompt_loop(1, <<>>)

\* ------------------------------------------------------------- call record
Call(op, arg, ok, err, count, out) ==
    [op |-> op, arg |-> arg, ok |-> ok, err |-> err, count |-> count, out |-> out]

MaxOf(S, d) == IF S = {} THEN d ELSE CHOOSE m \in S : \A n \in S : n <= m

\* ------------------------------------------------------------------- Init
\* PromptBuilder::new over the initial tree.
Init ==
    /\ file_contexts = <<>>
    /\ next_order = 0
    /\ kind = [p \in Paths |-> BaseKind(p)]
    /\ denied = {}
    /\ last = Call("new", Root, TRUE, "", 0, <<>>)
    /\ handed = -1
    /\ phase = "no"

\* ---------------------------------------------------------------- actions
\* add_file consulting the disk before the store.
AddFileDiskFirst(path) ==
    /\ next_order < MaxOrder
    /\ UNCHANGED <<kind, denied>>
    /\ IF ~exists(path)
       THEN /\ last' = Call("add_file", path, FALSE, "File does not exist", 0, <<>>)
            /\ UNCHANGED <<file_contexts, next_order, handed, phase>>
       ELSE IF contains(file_contexts, path)
       THEN /\ last' = Call("add_file", path, FALSE, "File already in prompt", 0, <<>>)
            /\ UNCHANGED <<file_contexts, next_order, handed, phase>>
       ELSE /\ file_contexts' = Append(file_contexts,
                    FileReference(path, file_display_name(path), next_order))
            /\ next_order' = next_order + 1
            /\ last' = Call("add_file", path, TRUE, "", 0, <<>>)
            /\ handed' = IF next_order > handed THEN next_order ELSE handed
            /\ phase' = IF phase = "cleared" THEN "first" ELSE "no"

\* PromptBuilder::add_file
AddFile(path) ==
    /\ next_order < MaxOrder
    /\ UNCHANGED <<kind, denied>>
    /\ IF contains(file_contexts, path)
       THEN /\ last' = Call("add_file", path, FALSE, "File already in prompt", 0, <<>>)
            /\ UNCHANGED <<file_contexts, next_order, handed, phase>>
       ELSE IF ~exists(path)
       THEN /\ last' = Call("add_file", path, FALSE, "File does not exist", 0, <<>>)
            /\ UNCHANGED <<file_contexts, next_order, handed, phase>>
       ELSE /\ file_contexts' = Append(file_contexts,
                    FileReference(path, file_display_name(path), next_order))
            /\ next_order' = next_order + 1
            /\ last' = Call("add_file", path, TRUE, "", 0, <<>>)
            /\ handed' = IF next_order > handed THEN next_order ELSE handed
            /\ phase' = IF phase = "cleared" THEN "first" ELSE "no"

\* PromptBuilder::add_directory
AddDirectory(dir_path, rev) ==
    /\ UNCHANGED <<kind, denied>>
    /\ IF ~is_dir(dir_path)
       THEN /\ last' = Call("add_directory", dir_path, FALSE, "Path is not a directory", 0, <<>>)
            /\ UNCHANGED <<file_contexts, next_order, handed, phase>>
       ELSE LET r == add_directory_recursive(dir_path,
                        [files |-> file_contexts, count |-> 0, err |-> ""], rev)
                given == {r.files[i].order : i \in (Len(file_contexts) + 1)..Len(r.files)}
            IN  /\ next_order + r.count <= MaxOrder
                /\ file_contexts' = r.files
                /\ handed' = MaxOf(given \cup {handed}, handed)
                /\ phase' = IF r.count > 0 THEN "no" ELSE phase
                /\ IF r.err # ""
                   THEN /\ last' = Call("add_directory", dir_path, FALSE, r.err, r.count, <<>>)
                        /\ UNCHANGED next_order
                   ELSE /\ next_order' = next_order + r.count
                        /\ last' = Call("add_directory", dir_path, TRUE, "", r.count, <<>>)

\* PromptBuilder::remove_file
RemoveFile(path) ==
    /\ file_contexts' = SelectSeq(file_contexts, LAMBDA f : f.path # path)
    /\ last' = Call("remove_file", path, TRUE, "",
                    Len(file_contexts) - Len(file_contexts'), <<>>)
    /\ UNCHANGED <<next_order, kind, denied, handed, phase>>

\* PromptBuilder::remove_directory
RemoveDirectory(dir_path) ==
    /\ file_contexts' = SelectSeq(file_contexts,
                                  LAMBDA f : ~starts_with(f.path, dir_path))
    /\ last' = Call("remove_directory", dir_path, TRUE, "",
                    Len(file_contexts) - Len(file_contexts'), <<>>)
    /\ UNCHANGED <<next_order, kind, denied, handed, phase>>

\* clear that empties the entries but keeps the counter.
ClearKeepingCounter ==
    /\ file_contexts' = <<>>
    /\ UNCHANGED next_order
    /\ last' = Call("clear", Root, TRUE, "", 0, <<>>)
    /\ handed' = -1
    /\ phase' = "cleared"
    /\ UNCHANGED <<kind, denied>>

\* PromptBuilder::clear
Clear ==
    /\ file_contexts' = <<>>
    /\ next_order' = 0
    /\ last' = Call("clear", Root, TRUE, "", 0, <<>>)
    /\ handed' = -1
    /\ phase' = "cleared"
    /\ UNCHANGED <<kind, denied>>

\* PromptBuilder::build_prompt, as called by Message::BuildPrompt
BuildPrompt ==
    /\ LET r == build_prompt IN
       last' = Call("build_prompt", Root, r.ok, "", 0, r.out)
    /\ UNCHANGED <<file_contexts, next_order, kind, denied, handed, phase>>

\* The environment unlinks a regular file.
Unlink(p) ==
    /\ is_file(p)
    /\ kind' = [kind EXCEPT ![p] = "missing"]
    /\ last' = Call("unlink", p, TRUE, "", 0, <<>>)
    /\ UNCHANGED <<file_contexts, next_order, denied, handed, phase>>

\* The environment creates a regular file in an existing directory.
Create(p) ==
    /\ ~exists(p)
    /\ Len(p) > 0
    /\ is_dir(SubSeq(p, 1, Len(p) - 1))
    /\ kind' = [kind EXCEPT ![p] = "file"]
    /\ last' = Call("create", p, TRUE, "", 0, <<>>)
    /\ UNCHANGED <<file_contexts, next_order, denied, handed, phase>>

\* The environment takes away (chmod -R a-r) or gives back (chmod -R a+r)
\* the read permission of a directory and of everything below it.
Chmod(p) ==
    /\ exists(p)
    /\ denied' = IF p \in denied
                 THEN {q \in denied : ~Below(q, p)}
                 ELSE denied \cup {q \in Paths : Below(q, p)}
    /\ last' = Call("chmod", p, TRUE, "", 0, <<>>)
    /\ UNCHANGED <<file_contexts, next_order, kind, handed, phase>>

Next ==
    \/ \E p \in FileArgs : AddFile(p)
    \/ \E d \in DirArgs, rev \in BOOLEAN : AddDirectory(d, rev)
    \/ \E p \in FileArgs : RemoveFile(p)
    \/ \E d \in DirArgs : RemoveDirectory(d)
    \/ Clear
    \/ BuildPrompt
    \/ \E p \in Volatile : Unlink(p)
    \/ \E p \in Volatile : Create(p)
    \/ \E p \in Chmoddable : Chmod(p)

Spec == Init /\ [][Next]_vars

\* ============================================================== properties
\* The entries of the post-state that the step created.
IsNewEntry(i) ==
    ~\E j \in 1..Len(file_contexts) : file_contexts[j] = file_contexts'[i]

\* D is a prefix of p component by component.
SegmentPrefix(D, p) == Len(D) <= Len(p) /\ \A k \in 1..Len(D) : p[k] = D[k]

\* The regular files found on disk anywhere below root.
FilesUnder(root) ==
    {p \in Paths : Len(p) > Len(root) /\ SegmentPrefix(root, p) /\ kind[p] = "file"}

\* The subdirectories found on disk anywhere below root.
DirsUnder(root) ==
    {p \in Paths : Len(p) > Len(root) /\ SegmentPrefix(root, p) /\ kind[p] = "dir"}

StorePaths == {file_contexts[i].path : i \in 1..Len(file_contexts)}

\* ---------------------------------------------------------------------- C1
\* C1: whatever add_file, add_directory, remove_file and remove_directory
\* calls were made, succeeding or not, no two entries of the store have the
\* same path.
C1_NoDuplicatePaths ==
    \A i, j \in 1..Len(file_contexts) :
        i # j => file_contexts[i].path # file_contexts[j].path

\* add_directory(/foo) succeeded and added one of the two files below /foo,
\* the other being in the store already.
C1_Witness ==
    /\ last.op = "add_directory" /\ last.ok /\ last.arg = Foo
    /\ last.count = 1
    /\ {FooA, FooSubB} \subseteq StorePaths

\* ---------------------------------------------------------------------- C2
\* C2: in every reachable state the order values are strictly increasing
\* along the entry sequence (hence pairwise distinct), also after an
\* add_directory that aborted with an I/O error part-way through the walk.
C2_OrdersStrictlyIncreasing ==
    \A i, j \in 1..Len(file_contexts) :
        i < j => file_contexts[i].order < file_contexts[j].order

\* ---------------------------------------------------------------------- C3
\* C3: with no clear in between, every entry a call creates gets an order
\* value strictly larger than every order value handed out before the call.
C3_OrdersNeverReassigned ==
    [][\A i \in 1..Len(file_contexts') :
          IsNewEntry(i) => file_contexts'[i].order > handed]_vars

\* ---------------------------------------------------------------------- C4
\* C4: remove_directory(D) removes exactly the entries whose path has D as a
\* component-wise prefix (D = /foo leaves /foobar), keeps every other entry
\* as it was and in the same relative position, and keeps the order counter.
C4_RemoveDirectoryFrame ==
    [][last'.op = "remove_directory" =>
        LET D == last'.arg
            kept == {i \in 1..Len(file_contexts) :
                        ~SegmentPrefix(D, file_contexts[i].path)}
        IN  /\ Len(file_contexts') = Cardinality(kept)
            /\ \A i \in kept :
                 \* the entry sits at the position its rank among the kept gives it
                 file_contexts'[Cardinality({k \in kept : k <= i})] = file_contexts[i]
            /\ \A i \in 1..Len(file_contexts') :
                 ~SegmentPrefix(D, file_contexts'[i].path)
            /\ next_order' = next_order]_vars

\* remove_directory(/foo) removed at least one entry and /foobar is still in
\* the store.
C4_Witness ==
    /\ last.op = "remove_directory" /\ last.arg = Foo
    /\ last.count >= 1
    /\ Foobar \in StorePaths

\* ---------------------------------------------------------------------- C5
\* C5: a successful add_directory(root) returns the number of files found
\* below root that were not in the store before the call, file_count grows
\* by that number and so does the order counter; with no overlap the number
\* is that of all the files below root, and when all are present it is 0 and
\* the store is unchanged.
C5_AddDirectoryCount ==
    [][(last'.op = "add_directory" /\ last'.ok) =>
        LET root == last'.arg
            fresh == FilesUnder(root) \ StorePaths
        IN  /\ last'.count = Cardinality(fresh)
            /\ Len(file_contexts') = Len(file_contexts) + Cardinality(fresh)
            /\ next_order' = next_order + Cardinality(fresh)
            /\ (FilesUnder(root) \cap StorePaths = {}
                    => last'.count = Cardinality(FilesUnder(root)))
            /\ (FilesUnder(root) \subseteq StorePaths
                    => /\ last'.count = 0
                       /\ file_contexts' = file_contexts
                       /\ next_order' = next_order)]_vars

\* add_directory(/) succeeded on the tree of 3 files and 2 subdirectories
\* and returned 3.
C5_Witness ==
    /\ last.op = "add_directory" /\ last.ok /\ last.arg = Root
    /\ Cardinality(FilesUnder(Root)) = 3 /\ Cardinality(DirsUnder(Root)) = 2
    /\ last.count = 3
    /\ Len(file_contexts) = 3

\* ---------------------------------------------------------------------- C6
\* The paths whose content can be read.
CanRead(p) == kind[p] = "file" /\ p \notin denied

ReadErrors ==
    {"Error reading file: " \o e \o "\n\n" :
        e \in {"No such file or directory (os error 2)",
               "Is a directory (os error 21)",
               "Permission denied (os error 13)"}}

\* The number of pieces of the block of entry i.
BlockLen(i) == IF CanRead(file_contexts[i].path) THEN 3 ELSE 2

RECURSIVE BlockStart(_)
\* Where the block of entry i starts in the output.
BlockStart(i) == IF i = 1 THEN 1 ELSE BlockStart(i - 1) + BlockLen(i - 1)

\* C6: build_prompt never returns an error; its output is one block per
\* entry, in the store's order, each block the header line with the display
\* name followed by the content when the file can be read and by an inline
\* error message when it cannot, the blocks after an unreadable file
\* included.
C6_BuildPromptNeverFails ==
    last.op = "build_prompt" =>
        /\ last.ok
        /\ Len(last.out) = BlockStart(Len(file_contexts) + 1) - 1
        /\ \A i \in 1..Len(file_contexts) :
            LET at == BlockStart(i)
                f  == file_contexts[i]
            IN  /\ last.out[at] = "=== File: " \o f.display_name \o " ===\n"
                /\ IF CanRead(f.path)
                   THEN /\ last.out[at + 1] = Content(f.path)
                        /\ last.out[at + 2] = "\n\n"
                   ELSE last.out[at + 1] \in ReadErrors

\* build_prompt ran on a store whose first entry was deleted since it was
\* added and whose second entry is readable.
C6_Witness ==
    /\ last.op = "build_prompt"
    /\ Len(file_contexts) >= 2
    /\ kind[file_contexts[1].path] = "missing"
    /\ CanRead(file_contexts[2].path)

C8_DisplayRelativeToRoot ==
    last.op = "add_directory" =>
        \A i \in (Len(file_contexts) - last.count + 1)..Len(file_contexts) :
            LET f == file_contexts[i] IN
            f.display_name = Join(SubSeq(f.path, Len(last.arg) + 1, Len(f.path)))

\* ---------------------------------------------------------------------- C9
\* C9: readable_files_count() + unreadable_files_count() = file_count(),
\* whatever each entry's path is on disk (regular file, directory, missing).
C9_CountsPartition ==
    readable_files_count + unreadable_files_count = file_count

\* The store holds a regular file, a directory and a missing path.
C9_Witness ==
    /\ \E i \in 1..Len(file_contexts) : kind[file_contexts[i].path] = "file"
    /\ \E i \in 1..Len(file_contexts) : kind[file_contexts[i].path] = "dir"
    /\ \E i \in 1..Len(file_contexts) : kind[file_contexts[i].path] = "missing"

====
